---- MODULE Spec2Model ----
(***************************************************************************)
(* Model of pkg/leeway/reporter.go: the ConsoleReporter (a registry of     *)
(* per-package prefix writers guarded by a sync.RWMutex, all writing to    *)
(* os.Stdout) and the CompositeReporter (fan-out to a list of children).   *)
(*                                                                         *)
(* Every Reporter method is a call made by one of the build's goroutines;  *)
(* a call is a sequence of steps, one per shared-memory access (mutex      *)
(* operation, map access, write to os.Stdout, access to a prefix writer's  *)
(* buffer).  Library behaviour the file relies on:                         *)
(*  - sync.RWMutex: RLock blocks while a writer holds the lock or waits    *)
(*    in Lock; Lock blocks while the lock is held by anyone.               *)
(*  - textio.PrefixWriter (github.com/segmentio/textio, prefix.go): Write  *)
(*    appends the input line by line to the writer's buffer; each time the *)
(*    buffer ends in '\n' it writes the prefix to the base writer, then    *)
(*    the buffered line, then discards it.  An unterminated line stays     *)
(*    buffered until a later Write completes it (reporter.go never calls   *)
(*    Flush).  A PrefixWriter is not safe for concurrent use.              *)
(*  - os.Stdout.Write: safe for concurrent use, each call is atomic.       *)
(*  - a Go map accessed by two goroutines at once, one of them writing,    *)
(*    is a data race: the runtime may abort ("fatal error: concurrent map  *)
(*    writes" / "concurrent map read and map write"), or a racing write    *)
(*    may be lost, or a racing read may miss an entry.                     *)
(***************************************************************************)
EXTENDS Integers, Sequences, FiniteSets, TLC

VARIABLES
  pc,       \* pc[t]: position of goroutine t inside its current call
  call,     \* call[t]: the call goroutine t is executing (NoCall when idle)
  out,      \* out[t]: the local variable `out` (a sink id, 0 when unset)
  rest,     \* rest[t]: bytes of the current Write not yet consumed
  chunk,    \* chunk[t]: the buffered line a Write is about to emit
  writer,   \* r.writer: package full name -> sink id (0: no entry)
  sinks,    \* every textio.PrefixWriter created so far
  muW,      \* r.mu: goroutine holding the write lock (0: none)
  muR,      \* r.mu: goroutines holding the read lock
  muQ,      \* r.mu: goroutines blocked in Lock()
  stdout,   \* the bytes written to os.Stdout, in order
  raced,    \* goroutines whose pending map access overlapped an unlocked one
  crashed,  \* the Go runtime aborted the process
  hist,     \* history of calls and returns (for stating the claims)
  children, \* CompositeReporter.Children (child ids, in list order)
  cidx,     \* cidx[t]: index of the child goroutine t forwards to
  carg,     \* carg[t]: the arguments of goroutine t's call on the composite
  ctrace,   \* ctrace[id]: the child calls made by call id on the composite
  script    \* the calls of a scripted run, in order (empty otherwise)

vars == <<pc, call, out, rest, chunk, writer, sinks, muW, muR, muQ, stdout,
          raced, crashed, hist, children, cidx, carg, ctrace, script>>

consoleVars == <<out, rest, chunk, writer, sinks, muW, muR, muQ, stdout,
                 raced, crashed>>

compositeVars == <<children, cidx, carg, ctrace>>

-----------------------------------------------------------------------------
(* Bounds *)

NumThreads == 2

MaxCalls == 3

MaxEngineCalls == 5

MaxChildren == 3

MaxCompositeCalls == 2

MaxSeqCalls == 2

Threads == 1..NumThreads

\* The goroutines that call the CompositeReporter.
Callers == {1, 2}

-----------------------------------------------------------------------------
(* Inputs *)

Units == {"U", "V"}

NoUnit == ""

Nil == "nil"

Errs == {Nil, "boom"}

PackageBuilt == "built"

PackageNotBuilt == "notbuilt"

\* pkg.Version(): succeeds for U, fails for V.
VersionFails(u) == u = "V"

\* A version left empty when pkg.Version() fails.
VersionOrEmpty(u) == IF VersionFails(u) THEN "" ELSE "1"

\* version, err := pkg.Version(); if err != nil { version = "unknown" }
Version(u) == IF VersionFails(u) THEN "unknown" ELSE "1"

\* The buffers PackageBuildLog is called with: an unterminated fragment and
\* a complete line.
Bufs == { <<"a">>, <<"b", "\n">> }

\* The arguments of a Reporter method (those it does not take are unset).
Args(isErr, buf, err, status) ==
  [isErr |-> isErr, buf |-> buf, err |-> err, status |-> status]

NoArgs == Args(FALSE, << >>, Nil, << >>)

NoCall == [op |-> "none", u |-> NoUnit, id |-> 0, bytes |-> << >>]

-----------------------------------------------------------------------------
(* Rendering *)

Tok(u, k, d) == [u |-> u, k |-> k, d |-> d]

NL(u) == Tok(u, "nl", "")

IsNL(b) == b.k = "nl"

\* getRunPrefix(pkg): "[<full name>] " rendered gray.
getRunPrefix(u) == Tok(u, "pfx", "")

\* The bytes of a log buffer of package u.
LogBytes(u, buf) ==
  [i \in 1..Len(buf) |-> IF buf[i] = "\n" THEN NL(u) ELSE Tok(u, "log", buf[i])]

\* "build started (version V)\n"
StartedMsg(u) == << Tok(u, "started", Version(u)), NL(u) >>

\* "package build succeded\n" or "package build failed\nReason: <err>\n":
\* a token carries the literal text of the source (the colours left out).
FinishedMsg(u, err) ==
  IF err = Nil
    THEN << Tok(u, "succeeded", "package build succeded"), NL(u) >>
    ELSE << Tok(u, "failed", "package build failed"), NL(u),
            Tok(u, "reason", err), NL(u) >>

\* "\nbuild succeded\n" or "build failed\nReason: <err>\n"
BuildFinishedMsg(err) ==
  IF err = Nil
    THEN << NL(NoUnit), Tok(NoUnit, "build-succeeded", "build succeded"),
            NL(NoUnit) >>
    ELSE << Tok(NoUnit, "build-failed", "build failed"), NL(NoUnit),
            Tok(NoUnit, "reason", err), NL(NoUnit) >>


\* BuildStarted's table.  A line is "<tag>\t<name>\t(version <v>)\n"; the tag
\* is rendered green for "cached" (ESC[32m) and yellow for "build" (ESC[33m),
\* so every cached line sorts before every build line, then by name.
TagRank(tag) == IF tag = "cached" THEN 0 ELSE 1

NameRank(u) == IF u = "U" THEN 0 ELSE 1

StatusLine(u, status) ==
  [tag |-> IF status = PackageBuilt THEN "cached" ELSE "build",
   name |-> u, version |-> Version(u)]

\* lines[i] < lines[j] on the rendered text
LineLess(a, b) ==
  \/ TagRank(a.tag) < TagRank(b.tag)
  \/ TagRank(a.tag) = TagRank(b.tag) /\ NameRank(a.name) < NameRank(b.name)

\* for pkg, status := range status: the keys in any order.
RangeOrders(status) ==
  {o \in [1..Cardinality(DOMAIN status) -> DOMAIN status] :
     \A i, j \in DOMAIN o : i # j => o[i] # o[j]}

\* lines[i], one per key, in the order the range loop visited the keys.
Lines(order, status) ==
  [i \in 1..Len(order) |-> StatusLine(order[i], status[order[i]])]

\* The slice left by sort.Slice ordered by lines[i] < lines[j], with no
\* effect at all.
SortLinesNot(ls) == ls

\* sort.Slice(lines, func(i, j int) bool { return lines[i] < lines[j] })
RECURSIVE SortLines(_)
SortLines(ls) ==
  IF ls = << >> THEN << >>
  ELSE LET m == CHOOSE i \in 1..Len(ls) : \A j \in 1..Len(ls) : ~LineLess(ls[j], ls[i])
       IN  << ls[m] >> \o SortLines(SubSeq(ls, 1, m - 1) \o SubSeq(ls, m + 1, Len(ls)))

LineBytes(l) ==
  << Tok(NoUnit, l.tag, ""), Tok(NoUnit, "name", l.name),
     Tok(NoUnit, "version", l.version), NL(NoUnit) >>

RECURSIVE JoinLines(_)
JoinLines(ls) ==
  IF ls = << >> THEN << >> ELSE LineBytes(Head(ls)) \o JoinLines(Tail(ls))

\* fmt.Fprintln(tw, strings.Join(lines, "")): the sorted lines and a newline.
Table(order, status) ==
  JoinLines(SortLines(Lines(order, status))) \o << NL(NoUnit) >>

\* The status maps BuildStarted is called with.
StatusMaps ==
  { [u \in Units |-> IF u = "U" THEN PackageBuilt ELSE PackageNotBuilt],
    [u \in {"V"} |-> PackageBuilt] }

-----------------------------------------------------------------------------
(* textio.PrefixWriter *)

\* NewPrefixWriter(os.Stdout, getRunPrefix(pkg)), created by call number id.
NewPrefixWriter(u, id) == [pfx |-> u, buf |-> << >>, by |-> id]

RECURSIVE FirstLineLen(_)
FirstLineLen(bs) ==
  IF bs = << >> THEN 0
  ELSE IF IsNL(Head(bs)) THEN 1
  ELSE 1 + FirstLineLen(Tail(bs))

\* forEachLine: the input up to and including its first '\n' (all of it when
\* it holds none).
FirstLine(bs) == SubSeq(bs, 1, FirstLineLen(bs))

AfterFirstLine(bs) == SubSeq(bs, FirstLineLen(bs) + 1, Len(bs))

\* isLine: the buffer ends in '\n'.
isLine(bs) == bs # << >> /\ IsNL(bs[Len(bs)])

\* discard(n): drop the first n buffered bytes.
discard(bs, n) == IF n >= Len(bs) THEN << >> ELSE SubSeq(bs, n + 1, Len(bs))

-----------------------------------------------------------------------------
(* State *)

\* The calls made so far are hist[1], hist[2], ... in the order they began;
\* hist[i].live holds the calls that were still running when call i began.
NumCalls == Len(hist)

InFlight == {call[t].id : t \in {x \in Threads : pc[x] # "idle"}}

Init ==
  /\ pc = [t \in Threads |-> "idle"]
  /\ call = [t \in Threads |-> NoCall]
  /\ out = [t \in Threads |-> 0]
  /\ rest = [t \in Threads |-> << >>]
  /\ chunk = [t \in Threads |-> << >>]
  /\ writer = [u \in Units |-> 0]
  /\ sinks = << >>
  /\ muW = 0
  /\ muR = {}
  /\ muQ = {}
  /\ stdout = << >>
  /\ raced = {}
  /\ crashed = FALSE
  /\ hist = << >>
  /\ children = << >>
  /\ cidx = [t \in Threads |-> 0]
  /\ carg = [t \in Threads |-> NoArgs]
  /\ ctrace = << >>
  /\ script = << >>

\* The build issues another call on an idle goroutine (idle goroutines are
\* interchangeable: the first one takes it).
CanBegin(t) ==
  /\ pc[t] = "idle" /\ ~crashed
  /\ \A x \in Threads : x < t => pc[x] # "idle"

\* A call for package u is running.
Busy(u) == \E t \in Threads : pc[t] # "idle" /\ call[t].u = u

\* BuildStarted and BuildFinished are called once per build.
NotYetCalled(op) == \A i \in 1..Len(hist) : hist[i].op # op

\* Goroutine t enters a Reporter method.
Enter(t, op, u, bytes, at) ==
  LET c == [op |-> op, u |-> u, id |-> NumCalls + 1, bytes |-> bytes]
  IN  /\ call' = [call EXCEPT ![t] = c]
      /\ hist' = Append(hist, [op |-> op, u |-> u, id |-> c.id, bytes |-> bytes,
                               live |-> InFlight])
      /\ pc' = [pc EXCEPT ![t] = at]

\* Goroutine t returns from its method.
Leave(t) ==
  /\ pc' = [pc EXCEPT ![t] = "idle"]
  /\ UNCHANGED hist
  /\ call' = [call EXCEPT ![t] = NoCall]
  /\ out' = [out EXCEPT ![t] = 0]

Goto(t, at) == pc' = [pc EXCEPT ![t] = at] /\ UNCHANGED <<call, hist>>

\* The runtime aborts the process: nothing runs any more.
Fatal == crashed' = TRUE /\ UNCHANGED <<pc, call, out, rest, chunk, writer, sinks,
                                        muW, muR, muQ, stdout, raced, hist>>

\* Goroutine t holds r.mu with a map access pending, or is about to run the
\* unlocked delete of PackageBuildFinished.
InMapAccess(t) == pc[t] \in {"ps_ins", "pl_look", "pl_ins", "pf_look", "pf_del"}

\* The outcomes of a map write / a map read by t.
StoreOutcomes(t) == IF t \in raced THEN {"applied", "lost", "fatal"} ELSE {"applied"}

LoadOutcomes(t) == IF t \in raced THEN {"found", "missed", "fatal"} ELSE {"found"}


-----------------------------------------------------------------------------
(* sync.RWMutex *)

\* RLock returns: no writer holds the lock and none waits for it.
CanRLock == muW = 0 /\ muQ = {}

\* A blocked Lock returns: nobody holds the lock.
CanLock == muW = 0 /\ muR = {}

\* Lock returns at once: nobody holds the lock and no earlier Lock waits.
CanLockNow == CanLock /\ muQ = {}

-----------------------------------------------------------------------------
(* textio.PrefixWriter.Write through out[t], as out.Write(buf) and          *)
(* io.WriteString(out, msg) run it                                          *)

\* The Write has consumed its input: PackageBuildFinished goes on to its
\* delete, the other two methods return.
EndWrite(t) ==
  IF call[t].op = "PackageBuildFinished"
    THEN Goto(t, "pf_del") /\ UNCHANGED out
    ELSE Leave(t)

\* Append the next line of the input to the sink's buffer; a buffer that now
\* ends in '\n' is the chunk to emit.
WriteNext(t) ==
  /\ UNCHANGED <<compositeVars, script>>
  /\ pc[t] = "w_next" /\ ~crashed
  /\ LET s == out[t]
         b == sinks[s].buf \o FirstLine(rest[t])
     IN  /\ sinks' = [sinks EXCEPT ![s].buf = b]
         /\ rest' = [rest EXCEPT ![t] = AfterFirstLine(rest[t])]
         /\ IF isLine(b)
              THEN /\ chunk' = [chunk EXCEPT ![t] = b]
                   /\ Goto(t, "w_pfx") /\ UNCHANGED out
              ELSE /\ UNCHANGED chunk
                   /\ IF AfterFirstLine(rest[t]) = << >>
                        THEN EndWrite(t)
                        ELSE Goto(t, "w_next") /\ UNCHANGED out
  /\ UNCHANGED <<writer, muW, muR, muQ, stdout, raced, crashed>>

\* writeLine, first half: the prefix goes to os.Stdout.
WritePrefix(t) ==
  /\ UNCHANGED <<compositeVars, script>>
  /\ pc[t] = "w_pfx" /\ ~crashed
  /\ stdout' = Append(stdout, getRunPrefix(sinks[out[t]].pfx))
  /\ Goto(t, "w_body")
  /\ UNCHANGED <<out, rest, chunk, writer, sinks, muW, muR, muQ, raced, crashed>>

\* writeLine, second half: the line goes to os.Stdout and leaves the buffer.
WriteBody(t) ==
  /\ UNCHANGED <<compositeVars, script>>
  /\ pc[t] = "w_body" /\ ~crashed
  /\ stdout' = stdout \o chunk[t]
  /\ sinks' = [sinks EXCEPT ![out[t]].buf = discard(@, Len(chunk[t]))]
  /\ chunk' = [chunk EXCEPT ![t] = << >>]
  /\ IF rest[t] = << >> THEN EndWrite(t) ELSE Goto(t, "w_next") /\ UNCHANGED out
  /\ UNCHANGED <<rest, writer, muW, muR, muQ, raced, crashed>>

-----------------------------------------------------------------------------
(* ConsoleReporter.PackageBuildStarted *)

\* out := textio.NewPrefixWriter(...); r.mu.Lock() is called: it returns at
\* once when the mutex is free, and blocks otherwise.
PSBegin(t, u) ==
  /\ UNCHANGED <<compositeVars, script>>
  /\ CanBegin(t)
  /\ Enter(t, "PackageBuildStarted", u, StartedMsg(u),
           IF CanLockNow THEN "ps_ins" ELSE "ps_lock")
  /\ sinks' = Append(sinks, NewPrefixWriter(u, NumCalls + 1))
  /\ out' = [out EXCEPT ![t] = Len(sinks) + 1]
  /\ IF CanLockNow THEN muW' = t /\ UNCHANGED muQ
                   ELSE muQ' = muQ \cup {t} /\ UNCHANGED muW
  /\ UNCHANGED <<rest, chunk, writer, muR, stdout, raced, crashed>>

\* The blocked r.mu.Lock() returns.
PSLock(t) ==
  /\ UNCHANGED <<compositeVars, script>>
  /\ pc[t] = "ps_lock" /\ ~crashed /\ CanLock
  /\ muW' = t /\ muQ' = muQ \ {t}
  /\ Goto(t, "ps_ins")
  /\ UNCHANGED <<out, rest, chunk, writer, sinks, muR, stdout, raced, crashed>>

\* r.writer[nme] = out; r.mu.Unlock(); then io.WriteString(out, ...) starts.
PSInsert(t) ==
  /\ UNCHANGED <<compositeVars, script>>
  /\ pc[t] = "ps_ins" /\ ~crashed
  /\ \E o \in StoreOutcomes(t) :
       IF o = "fatal" THEN Fatal
       ELSE /\ writer' = IF o = "applied"
                           THEN [writer EXCEPT ![call[t].u] = out[t]] ELSE writer
            /\ muW' = 0
            /\ raced' = raced \ {t}
            /\ rest' = [rest EXCEPT ![t] = call[t].bytes]
            /\ Goto(t, "w_next")
            /\ UNCHANGED <<out, chunk, sinks, muR, muQ, stdout, crashed>>

-----------------------------------------------------------------------------
(* ConsoleReporter.PackageBuildLog *)

\* A PackageBuildLog that writes nothing for the error stream.
PLBeginDroppingStderr(t, u, isErr, buf) ==
  /\ UNCHANGED <<compositeVars, script>>
  /\ CanBegin(t)
  /\ Enter(t, "PackageBuildLog", u, IF isErr THEN << >> ELSE LogBytes(u, buf),
           IF CanRLock THEN "pl_look" ELSE "pl_rlock")
  /\ muR' = IF CanRLock THEN muR \cup {t} ELSE muR
  /\ UNCHANGED <<out, rest, chunk, writer, sinks, muW, muQ, stdout, raced, crashed>>

\* r.mu.RLock() is called: it returns at once unless a writer holds or awaits
\* the mutex.
PLBegin(t, u, isErr, buf) ==
  /\ UNCHANGED <<compositeVars, script>>
  /\ CanBegin(t)
  /\ Enter(t, "PackageBuildLog", u, LogBytes(u, buf),
           IF CanRLock THEN "pl_look" ELSE "pl_rlock")
  /\ muR' = IF CanRLock THEN muR \cup {t} ELSE muR
  /\ UNCHANGED <<out, rest, chunk, writer, sinks, muW, muQ, stdout, raced, crashed>>

\* The blocked r.mu.RLock() returns.
PLRLock(t) ==
  /\ UNCHANGED <<compositeVars, script>>
  /\ pc[t] = "pl_rlock" /\ ~crashed /\ CanRLock
  /\ muR' = muR \cup {t}
  /\ Goto(t, "pl_look")
  /\ UNCHANGED <<out, rest, chunk, writer, sinks, muW, muQ, stdout, raced, crashed>>

\* out, ok := r.writer[nme]; r.mu.RUnlock(); if ok, out.Write(buf) starts,
\* otherwise r.mu.Lock() is called (and returns at once when the mutex is
\* free).
PLLookup(t) ==
  /\ UNCHANGED <<compositeVars, script>>
  /\ pc[t] = "pl_look" /\ ~crashed
  /\ \E o \in LoadOutcomes(t) :
       IF o = "fatal" THEN Fatal
       ELSE LET ok == o = "found" /\ writer[call[t].u] # 0
            IN  /\ muR' = muR \ {t}
                /\ raced' = raced \ {t}
                /\ IF ok
                     THEN /\ out' = [out EXCEPT ![t] = writer[call[t].u]]
                          /\ rest' = [rest EXCEPT ![t] = call[t].bytes]
                          /\ Goto(t, "w_next")
                          /\ UNCHANGED <<muW, muQ>>
                     ELSE /\ IF muW = 0 /\ muR = {t} /\ muQ = {}
                               THEN muW' = t /\ Goto(t, "pl_ins") /\ UNCHANGED muQ
                               ELSE muQ' = muQ \cup {t} /\ Goto(t, "pl_lock")
                                    /\ UNCHANGED muW
                          /\ UNCHANGED <<out, rest>>
                /\ UNCHANGED <<chunk, writer, sinks, stdout, crashed>>

\* r.mu.Lock() returns.
PLLock(t) ==
  /\ UNCHANGED <<compositeVars, script>>
  /\ pc[t] = "pl_lock" /\ ~crashed /\ CanLock
  /\ muW' = t /\ muQ' = muQ \ {t}
  /\ Goto(t, "pl_ins")
  /\ UNCHANGED <<out, rest, chunk, writer, sinks, muR, stdout, raced, crashed>>

\* out = textio.NewPrefixWriter(...); r.writer[nme] = out; r.mu.Unlock();
\* then out.Write(buf) starts.
PLInsert(t) ==
  /\ UNCHANGED <<compositeVars, script>>
  /\ pc[t] = "pl_ins" /\ ~crashed
  /\ \E o \in StoreOutcomes(t) :
       IF o = "fatal" THEN Fatal
       ELSE /\ sinks' = Append(sinks, NewPrefixWriter(call[t].u, call[t].id))
            /\ out' = [out EXCEPT ![t] = Len(sinks) + 1]
            /\ writer' = IF o = "applied"
                           THEN [writer EXCEPT ![call[t].u] = Len(sinks) + 1]
                           ELSE writer
            /\ muW' = 0
            /\ raced' = raced \ {t}
            /\ rest' = [rest EXCEPT ![t] = call[t].bytes]
            /\ Goto(t, "w_next")
            /\ UNCHANGED <<chunk, muR, muQ, stdout, crashed>>

-----------------------------------------------------------------------------
(* ConsoleReporter.PackageBuildFinished *)

\* msg is rendered; r.mu.RLock() is called: it returns at once unless a
\* writer holds or awaits the mutex.
PFBegin(t, u, err) ==
  /\ UNCHANGED <<compositeVars, script>>
  /\ CanBegin(t)
  /\ Enter(t, "PackageBuildFinished", u, FinishedMsg(u, err),
           IF CanRLock THEN "pf_look" ELSE "pf_rlock")
  /\ muR' = IF CanRLock THEN muR \cup {t} ELSE muR
  /\ UNCHANGED <<out, rest, chunk, writer, sinks, muW, muQ, stdout, raced, crashed>>

\* The blocked r.mu.RLock() returns.
PFRLock(t) ==
  /\ UNCHANGED <<compositeVars, script>>
  /\ pc[t] = "pf_rlock" /\ ~crashed /\ CanRLock
  /\ muR' = muR \cup {t}
  /\ Goto(t, "pf_look")
  /\ UNCHANGED <<out, rest, chunk, writer, sinks, muW, muQ, stdout, raced, crashed>>

\* A lookup that stores the prefix writer it creates when it finds none.
PFLookupStoring(t) ==
  /\ UNCHANGED <<compositeVars, script>>
  /\ pc[t] = "pf_look" /\ ~crashed
  /\ \E o \in LoadOutcomes(t) :
       IF o = "fatal" THEN Fatal
       ELSE LET ok == o = "found" /\ writer[call[t].u] # 0
            IN  /\ muR' = muR \ {t}
                /\ raced' = raced \ {t}
                /\ IF ok
                     THEN /\ out' = [out EXCEPT ![t] = writer[call[t].u]]
                          /\ UNCHANGED <<sinks, writer>>
                     ELSE /\ sinks' = Append(sinks, NewPrefixWriter(call[t].u, call[t].id))
                          /\ out' = [out EXCEPT ![t] = Len(sinks) + 1]
                          /\ writer' = [writer EXCEPT ![call[t].u] = Len(sinks) + 1]
                /\ rest' = [rest EXCEPT ![t] = call[t].bytes]
                /\ Goto(t, "w_next")
                /\ UNCHANGED <<chunk, muW, muQ, stdout, crashed>>

\* out, ok := r.writer[nme]; r.mu.RUnlock(); if !ok, out is a new prefix
\* writer that is not stored; then io.WriteString(out, msg) starts.
PFLookup(t) ==
  /\ UNCHANGED <<compositeVars, script>>
  /\ pc[t] = "pf_look" /\ ~crashed
  /\ \E o \in LoadOutcomes(t) :
       IF o = "fatal" THEN Fatal
       ELSE LET ok == o = "found" /\ writer[call[t].u] # 0
            IN  /\ muR' = muR \ {t}
                /\ raced' = raced \ {t}
                /\ IF ok
                     THEN /\ out' = [out EXCEPT ![t] = writer[call[t].u]]
                          /\ UNCHANGED sinks
                     ELSE /\ sinks' = Append(sinks, NewPrefixWriter(call[t].u, call[t].id))
                          /\ out' = [out EXCEPT ![t] = Len(sinks) + 1]
                /\ rest' = [rest EXCEPT ![t] = call[t].bytes]
                /\ Goto(t, "w_next")
                /\ UNCHANGED <<chunk, writer, muW, muQ, stdout, crashed>>

\* A PackageBuildFinished that empties the registry.
PFDeleteAll(t) ==
  /\ UNCHANGED <<compositeVars, script>>
  /\ pc[t] = "pf_del" /\ ~crashed
  /\ LET others == {x \in Threads \ {t} : InMapAccess(x)}
         outcomes == IF others # {} THEN {"applied", "lost", "fatal"}
                     ELSE StoreOutcomes(t)
     IN  \E o \in outcomes :
           IF o = "fatal" THEN Fatal
           ELSE /\ writer' = IF o = "applied"
                               THEN [u \in Units |-> 0] ELSE writer
                /\ raced' = (raced \cup others) \ {t}
                /\ Leave(t)
                /\ UNCHANGED <<rest, chunk, sinks, muW, muR, muQ, stdout, crashed>>

\* delete(r.writer, nme), with r.mu not held; then the method returns.  The
\* delete races with every other goroutine that has a map access pending.
PFDelete(t) ==
  /\ UNCHANGED <<compositeVars, script>>
  /\ pc[t] = "pf_del" /\ ~crashed
  /\ LET others == {x \in Threads \ {t} : InMapAccess(x)}
         outcomes == IF others # {} THEN {"applied", "lost", "fatal"}
                     ELSE StoreOutcomes(t)
     IN  \E o \in outcomes :
           IF o = "fatal" THEN Fatal
           ELSE /\ writer' = IF o = "applied"
                               THEN [writer EXCEPT ![call[t].u] = 0] ELSE writer
                /\ raced' = (raced \cup others) \ {t}
                /\ Leave(t)
                /\ UNCHANGED <<rest, chunk, sinks, muW, muR, muQ, stdout, crashed>>

-----------------------------------------------------------------------------
(* ConsoleReporter.BuildStarted, ConsoleReporter.BuildFinished *)

\* The lines are rendered and sorted.
BSBegin(t, status) ==
  /\ UNCHANGED <<compositeVars, script>>
  /\ CanBegin(t) /\ NotYetCalled("BuildStarted")
  /\ \E order \in RangeOrders(status) :
       Enter(t, "BuildStarted", NoUnit, Table(order, status), "bs_out")
  /\ UNCHANGED consoleVars

\* fmt.Fprintln(tw, ...); tw.Flush(): the table reaches os.Stdout.
BSFlush(t) ==
  /\ UNCHANGED <<compositeVars, script>>
  /\ pc[t] = "bs_out" /\ ~crashed
  /\ stdout' = stdout \o call[t].bytes
  /\ Leave(t)
  /\ UNCHANGED <<rest, chunk, writer, sinks, muW, muR, muQ, raced, crashed>>

BFBegin(t, err) ==
  /\ UNCHANGED <<compositeVars, script>>
  /\ CanBegin(t) /\ NotYetCalled("BuildFinished")
  /\ Enter(t, "BuildFinished", NoUnit, BuildFinishedMsg(err), "bf_out")
  /\ UNCHANGED consoleVars

\* color.Printf / color.Println: the summary reaches os.Stdout.
BFPrint(t) ==
  /\ UNCHANGED <<compositeVars, script>>
  /\ pc[t] = "bf_out" /\ ~crashed
  /\ stdout' = stdout \o call[t].bytes
  /\ Leave(t)
  /\ UNCHANGED <<rest, chunk, writer, sinks, muW, muR, muQ, raced, crashed>>

-----------------------------------------------------------------------------
(* The ConsoleReporter called by the build's goroutines *)

\* A step of goroutine t inside its call.
Step(t) ==
  \/ PSLock(t)
  \/ PSInsert(t)
  \/ PLRLock(t)
  \/ PLLookup(t)
  \/ PLLock(t)
  \/ PLInsert(t)
  \/ PFRLock(t)
  \/ PFLookup(t)
  \/ PFDelete(t)
  \/ BSFlush(t)
  \/ BFPrint(t)
  \/ WriteNext(t)
  \/ WritePrefix(t)
  \/ WriteBody(t)

\* The package p's calls so far, and the engine's order for them:
\* PackageBuildStarted, then PackageBuildLog calls, then PackageBuildFinished.
LastOp(u) ==
  LET I == {i \in 1..Len(hist) : hist[i].u = u}
  IN  IF I = {} THEN "none" ELSE hist[CHOOSE i \in I : \A j \in I : j <= i].op

\* Any call, at any time: up to MaxCalls calls from NumThreads goroutines.
Next ==
  \/ \E t \in Threads, u \in Units : NumCalls < MaxCalls /\ PSBegin(t, u)
  \/ \E t \in Threads, u \in Units, isErr \in BOOLEAN, buf \in Bufs :
        NumCalls < MaxCalls /\ PLBegin(t, u, isErr, buf)
  \/ \E t \in Threads, u \in Units, err \in Errs :
        NumCalls < MaxCalls /\ PFBegin(t, u, err)
  \/ \E t \in Threads, status \in StatusMaps :
        NumCalls < MaxCalls /\ BSBegin(t, status)
  \/ \E t \in Threads, err \in Errs : NumCalls < MaxCalls /\ BFBegin(t, err)
  \/ \E t \in Threads : PSLock(t)
  \/ \E t \in Threads : PSInsert(t)
  \/ \E t \in Threads : PLRLock(t)
  \/ \E t \in Threads : PLLookup(t)
  \/ \E t \in Threads : PLLock(t)
  \/ \E t \in Threads : PLInsert(t)
  \/ \E t \in Threads : PFRLock(t)
  \/ \E t \in Threads : PFLookup(t)
  \/ \E t \in Threads : PFDelete(t)
  \/ \E t \in Threads : BSFlush(t)
  \/ \E t \in Threads : BFPrint(t)
  \/ \E t \in Threads : WriteNext(t)
  \/ \E t \in Threads : WritePrefix(t)
  \/ \E t \in Threads : WriteBody(t)

Spec == Init /\ [][Next]_vars

\* The build engine's calls: one goroutine per package in flight, and for
\* each package PackageBuildStarted, then its PackageBuildLog calls, then
\* PackageBuildFinished, each call after the one before has returned.  A
\* package that has finished may be built again.
NextEngine ==
  \/ \E t \in Threads, u \in Units :
        /\ NumCalls < MaxEngineCalls /\ ~Busy(u)
        /\ LastOp(u) \in {"none", "PackageBuildFinished"}
        /\ PSBegin(t, u)
  \/ \E t \in Threads, u \in Units, isErr \in BOOLEAN, buf \in Bufs :
        /\ NumCalls < MaxEngineCalls /\ ~Busy(u)
        /\ LastOp(u) \in {"PackageBuildStarted", "PackageBuildLog"}
        /\ PLBegin(t, u, isErr, buf)
  \/ \E t \in Threads, u \in Units, err \in Errs :
        /\ NumCalls < MaxEngineCalls /\ ~Busy(u)
        /\ LastOp(u) \in {"PackageBuildStarted", "PackageBuildLog"}
        /\ PFBegin(t, u, err)
  \/ \E t \in Threads : PSLock(t)
  \/ \E t \in Threads : PSInsert(t)
  \/ \E t \in Threads : PLRLock(t)
  \/ \E t \in Threads : PLLookup(t)
  \/ \E t \in Threads : PLLock(t)
  \/ \E t \in Threads : PLInsert(t)
  \/ \E t \in Threads : PFRLock(t)
  \/ \E t \in Threads : PFLookup(t)
  \/ \E t \in Threads : PFDelete(t)
  \/ \E t \in Threads : WriteNext(t)
  \/ \E t \in Threads : WritePrefix(t)
  \/ \E t \in Threads : WriteBody(t)

SpecEngine == Init /\ [][NextEngine]_vars


-----------------------------------------------------------------------------
(* CompositeReporter *)

\* for _, r := range c.Children: the i-th child visited.
ChildAt(i) == children[i]

\* A range loop that passes over every other child.
NextChildSkipping(i) == i + 2

\* The range loop moves on to the next child.
NextChild(i) == i + 1

\* Goroutine t calls method op of the composite.
CBegin(t, op, u, arg) ==
  /\ t \in Callers /\ CanBegin(t) /\ NumCalls < MaxCompositeCalls
  /\ Enter(t, op, u, << >>, "c_loop")
  /\ cidx' = [cidx EXCEPT ![t] = 1]
  /\ carg' = [carg EXCEPT ![t] = arg]
  /\ ctrace' = Append(ctrace, << >>)
  /\ UNCHANGED <<children, script>>
  /\ UNCHANGED consoleVars

\* r.<method>(args) is called on the current child, and returns; the range
\* loop moves on.
CForward(t) ==
  /\ pc[t] = "c_loop" /\ cidx[t] <= Len(children)
  /\ ctrace' = [ctrace EXCEPT ![call[t].id] =
                  Append(@, [child |-> ChildAt(cidx[t]), op |-> call[t].op,
                             u |-> call[t].u, arg |-> carg[t]])]
  /\ cidx' = [cidx EXCEPT ![t] = NextChild(cidx[t])]
  /\ UNCHANGED <<pc, call, hist, children, carg, script>>
  /\ UNCHANGED consoleVars

\* The range loop is over: the composite's method returns.
CReturn(t) ==
  /\ pc[t] = "c_loop" /\ cidx[t] > Len(children)
  /\ pc' = [pc EXCEPT ![t] = "idle"]
  /\ call' = [call EXCEPT ![t] = NoCall]
  /\ cidx' = [cidx EXCEPT ![t] = 0]
  /\ carg' = [carg EXCEPT ![t] = NoArgs]
  /\ UNCHANGED <<hist, children, ctrace, script>>
  /\ UNCHANGED consoleVars

\* The composites: n <= MaxChildren distinct children, listed from any one
\* of them on (the child count and the list order both vary).
ChildLists ==
  {[i \in 1..n |-> ((i + r - 2) % n) + 1] : n \in 1..MaxChildren, r \in 1..MaxChildren}
    \cup {<< >>}

\* The arguments the composite's PackageBuildLog and PackageBuildFinished are
\* called with.
LogCalls == { <<"U", FALSE, <<"a">> >>, <<"V", TRUE, <<"b", "\n">> >> }

FinishedCalls == { <<"U", Nil>>, <<"V", "boom">> }

InitComposite ==
  /\ pc = [t \in Threads |-> "idle"]
  /\ call = [t \in Threads |-> NoCall]
  /\ out = [t \in Threads |-> 0]
  /\ rest = [t \in Threads |-> << >>]
  /\ chunk = [t \in Threads |-> << >>]
  /\ writer = [u \in Units |-> 0]
  /\ sinks = << >>
  /\ muW = 0
  /\ muR = {}
  /\ muQ = {}
  /\ stdout = << >>
  /\ raced = {}
  /\ crashed = FALSE
  /\ hist = << >>
  /\ children \in ChildLists
  /\ cidx = [t \in Threads |-> 0]
  /\ carg = [t \in Threads |-> NoArgs]
  /\ ctrace = << >>
  /\ script = << >>

NextComposite ==
  \/ \E t \in Threads, status \in StatusMaps :
        CBegin(t, "BuildStarted", "U", Args(FALSE, << >>, Nil, status))
  \/ \E t \in Threads, err \in Errs :
        CBegin(t, "BuildFinished", "U", Args(FALSE, << >>, err, << >>))
  \/ \E t \in Threads, u \in Units :
        CBegin(t, "PackageBuildStarted", u, NoArgs)
  \/ \E t \in Threads, c \in LogCalls :
        CBegin(t, "PackageBuildLog", c[1], Args(c[2], c[3], Nil, << >>))
  \/ \E t \in Threads, c \in FinishedCalls :
        CBegin(t, "PackageBuildFinished", c[1], Args(FALSE, << >>, c[2], << >>))
  \/ \E t \in Threads : CForward(t)
  \/ \E t \in Threads : CReturn(t)

SpecComposite == InitComposite /\ [][NextComposite]_vars


-----------------------------------------------------------------------------
(* Scripted runs: the calls of script, one after the other has returned,    *)
(* first those on a CompositeReporter, then those on the ConsoleReporter    *)

\* Every status map over the packages.
SeqStatusMaps ==
  {[u \in S |-> f[u]] : S \in SUBSET Units,
                        f \in [Units -> {PackageBuilt, PackageNotBuilt}]}

SeqCall(via, op, u, arg) == [via |-> via, op |-> op, u |-> u, arg |-> arg]

\* The calls a script is made of.
SeqCalls ==
  {SeqCall(v, "PackageBuildStarted", u, NoArgs) :
     v \in {"console", "composite"}, u \in Units}
  \cup {SeqCall(v, "PackageBuildLog", u, Args(e, b, Nil, << >>)) :
     v \in {"console", "composite"}, u \in Units, e \in BOOLEAN, b \in Bufs}
  \cup {SeqCall(v, "PackageBuildFinished", u, Args(FALSE, << >>, e, << >>)) :
     v \in {"console", "composite"}, u \in Units, e \in Errs}
  \cup {SeqCall("console", "BuildStarted", "U", Args(FALSE, << >>, Nil, m)) :
     m \in SeqStatusMaps}
  \cup {SeqCall("composite", "BuildStarted", "U", Args(FALSE, << >>, Nil, m)) :
     m \in StatusMaps}
  \cup {SeqCall(v, "BuildFinished", "U", Args(FALSE, << >>, e, << >>)) :
     v \in {"console", "composite"}, e \in Errs}

\* The composites of a scripted run.
SeqChildren == { << >>, <<2, 1>> }

InitSeq ==
  /\ pc = [t \in Threads |-> "idle"]
  /\ call = [t \in Threads |-> NoCall]
  /\ out = [t \in Threads |-> 0]
  /\ rest = [t \in Threads |-> << >>]
  /\ chunk = [t \in Threads |-> << >>]
  /\ writer = [u \in Units |-> 0]
  /\ sinks = << >>
  /\ muW = 0
  /\ muR = {}
  /\ muQ = {}
  /\ stdout = << >>
  /\ raced = {}
  /\ crashed = FALSE
  /\ hist = << >>
  /\ children \in SeqChildren
  /\ cidx = [t \in Threads |-> 0]
  /\ carg = [t \in Threads |-> NoArgs]
  /\ ctrace = << >>
  /\ script \in [1..MaxSeqCalls -> SeqCalls]
  /\ \A i, j \in DOMAIN script :
       (i < j /\ script[i].via = "console") => script[j].via = "console"

\* The call the script makes next.
NextCall == script[NumCalls + 1]

\* The call before has returned, and the script goes on with op.
SeqReady(via, op) ==
  /\ InFlight = {} /\ NumCalls < Len(script)
  /\ NextCall.via = via /\ NextCall.op = op

\* No call waits for r.mu in a scripted run: the mutex is free whenever a
\* call asks for it.
NextSeq ==
  \/ \E t \in Threads :
        SeqReady("console", "PackageBuildStarted") /\ PSBegin(t, NextCall.u)
  \/ \E t \in Threads :
        /\ SeqReady("console", "PackageBuildLog")
        /\ PLBegin(t, NextCall.u, NextCall.arg.isErr, NextCall.arg.buf)
  \/ \E t \in Threads :
        /\ SeqReady("console", "PackageBuildFinished")
        /\ PFBegin(t, NextCall.u, NextCall.arg.err)
  \/ \E t \in Threads :
        SeqReady("console", "BuildStarted") /\ BSBegin(t, NextCall.arg.status)
  \/ \E t \in Threads :
        SeqReady("console", "BuildFinished") /\ BFBegin(t, NextCall.arg.err)
  \/ \E t \in Threads :
        /\ SeqReady("composite", NextCall.op)
        /\ CBegin(t, NextCall.op, NextCall.u, NextCall.arg)
  \/ \E t \in Threads : PSInsert(t)
  \/ \E t \in Threads : PLLookup(t)
  \/ \E t \in Threads : PLInsert(t)
  \/ \E t \in Threads : PFLookup(t)
  \/ \E t \in Threads : PFDelete(t)
  \/ \E t \in Threads : BSFlush(t)
  \/ \E t \in Threads : BFPrint(t)
  \/ \E t \in Threads : WriteNext(t)
  \/ \E t \in Threads : WritePrefix(t)
  \/ \E t \in Threads : WriteBody(t)
  \/ \E t \in Threads : CForward(t)
  \/ \E t \in Threads : CReturn(t)

SpecSeq == InitSeq /\ [][NextSeq]_vars

-----------------------------------------------------------------------------
(* Vocabulary of the properties *)

PS == "PackageBuildStarted"

PL == "PackageBuildLog"

PF == "PackageBuildFinished"

\* Goroutine t is inside a Write on its sink.
InWrite(t) == pc[t] \in {"w_next", "w_pfx", "w_body"}

\* The calls made for package u, in the order they began.
CallsOf(u) == SelectSeq(hist, LAMBDA h : h.u = u)

RECURSIVE Concat(_)
Concat(ss) == IF ss = << >> THEN << >> ELSE Head(ss) \o Concat(Tail(ss))

\* The bytes the calls for package u handed to their sinks, in call order.
Sent(u) == Concat([i \in 1..Len(CallsOf(u)) |-> CallsOf(u)[i].bytes])

\* What os.Stdout received from the sinks of package u: with the prefixes,
\* and without them.
Stream(u) == SelectSeq(stdout, LAMBDA b : b.u = u)

Rendered(u) == SelectSeq(stdout, LAMBDA b : b.u = u /\ b.k # "pfx")

\* The complete lines of a byte sequence.
LinesOf(bs) ==
  LET ends == {i \in 1..Len(bs) : IsNL(bs[i])}
      start(e) == IF \E i \in ends : i < e
                    THEN 1 + CHOOSE i \in ends : i < e /\ \A j \in ends : j < e => j <= i
                    ELSE 1
  IN  {SubSeq(bs, start(e), e) : e \in ends}

\* A line is one prefix followed by bytes of that prefix's package only.
OnePrefixLine(l) ==
  /\ l[1].k = "pfx"
  /\ \A i \in 2..Len(l) : l[i].k # "pfx" /\ l[i].u = l[1].u

\* The calls of package u never overlapped.
Sequential(u) ==
  \A i, j \in 1..Len(hist) :
    i < j /\ hist[i].u = u /\ hist[j].u = u => i \notin hist[j].live

-----------------------------------------------------------------------------
(* Properties *)

\* C1: with nothing but concurrent PackageBuildLog calls for distinct
\* packages, every line that reaches os.Stdout is one package's prefix
\* followed by bytes of that package only.
C1_LinesNotInterleaved ==
  ( /\ \A i \in 1..Len(hist) : hist[i].op = PL
    /\ \A i, j \in 1..Len(hist) : i # j => hist[i].u # hist[j].u )
  => \A l \in LinesOf(stdout) : OnePrefixLine(l)

\* C2: every write of r.writer (the two inserts, the delete) is made by a
\* goroutine holding r.mu exclusively, every lookup by one holding it at
\* least shared, and no goroutine accesses the map while another writes it.
C2_RegistryLockDiscipline ==
  \A t \in Threads :
    /\ pc[t] \in {"ps_ins", "pl_ins", "pf_del"} => muW = t
    /\ pc[t] \in {"pl_look", "pf_look"} => (t \in muR \/ muW = t)
    /\ \A x \in Threads \ {t} :
         ~(pc[t] \in {"ps_ins", "pl_ins", "pf_del"} /\ InMapAccess(x))

\* C3: a PackageBuildFinished and a PackageBuildLog for the same package are
\* never both inside a Write on the same sink.
C3_SinkWritesSerialized ==
  \A t, x \in Threads :
    ( /\ call[t].op = PF /\ call[x].op = PL /\ call[t].u = call[x].u
      /\ InWrite(t) /\ InWrite(x) )
    => out[t] # out[x]

\* The sinks of package u in use: the registered one and those being written.
SinksInUse(u) ==
  ({writer[u]} \ {0}) \cup {out[t] : t \in {x \in Threads : InWrite(x) /\ call[x].u = u}}

\* C4: no package ever has two distinct sinks in use at once.
C4_OneActiveSink == \A u \in Units : Cardinality(SinksInUse(u)) <= 1

\* C5: once calls for a package have returned it has a registry entry if
\* none of them was PackageBuildFinished, and none if PackageBuildFinished
\* was the last of them to begin.
C5_EntryLifecycle ==
  \A u \in Units :
    (CallsOf(u) # << >> /\ ~Busy(u)) =>
      /\ (\A i \in 1..Len(CallsOf(u)) : CallsOf(u)[i].op # PF) => writer[u] # 0
      /\ LastOp(u) = PF => writer[u] = 0

\* Package u saw PackageBuildLog calls, then PackageBuildStarted, then more
\* PackageBuildLog calls, then PackageBuildFinished, one after the other,
\* and all have returned.
EarlyLogsRun(u) ==
  LET c == CallsOf(u)
  IN  /\ Sequential(u) /\ ~Busy(u)
      /\ Len(c) >= 3 /\ c[1].op = PL /\ c[Len(c)].op = PF
      /\ \E k \in 2..(Len(c) - 1) :
           /\ c[k].op = PS
           /\ \A i \in 2..(Len(c) - 1) : i # k => c[i].op = PL

\* C6: after such a run every byte passed to PackageBuildLog is in the
\* output.
C6_EarlyLogsKept ==
  \A u \in Units :
    EarlyLogsRun(u) =>
      SelectSeq(Rendered(u), LAMBDA b : b.k = "log")
        = SelectSeq(Sent(u), LAMBDA b : b.k = "log")

\* Call c is a PackageBuildLog that began after a PackageBuildFinished for its
\* package had returned, with no call for the package begun in between and
\* nothing but PackageBuildLog calls for it still running during the finish.
LogAfterFinished(c) ==
  /\ hist[c].op = PL
  /\ \E f \in 1..(c - 1) :
       /\ hist[f].op = PF /\ hist[f].u = hist[c].u /\ f \notin hist[c].live
       /\ \A k \in (f + 1)..(c - 1) : hist[k].u # hist[c].u
       /\ \A k \in 1..(f - 1) :
            (hist[k].u = hist[c].u /\ hist[k].op # PL) => k \notin hist[f].live

\* C7: a PackageBuildLog after PackageBuildFinished writes through a sink it
\* created itself.
C7_FreshSinkAfterFinished ==
  \A t \in Threads :
    (InWrite(t) /\ LogAfterFinished(call[t].id)) => sinks[out[t]].by = call[t].id

\* The goroutine running call id.
Runner(id) == CHOOSE t \in Threads : pc[t] # "idle" /\ call[t].id = id

\* C8: a call on the composite calls the same method on the children in list
\* order, each once, and has called every child when it returns.
C8_ForwardsInOrder ==
  \A id \in 1..Len(hist) :
    LET n == IF id \in InFlight THEN cidx[Runner(id)] - 1 ELSE Len(children)
    IN  /\ Len(ctrace[id]) = n
        /\ \A i \in 1..n : /\ ctrace[id][i].child = children[i]
                           /\ ctrace[id][i].op = hist[id].op

\* A call on a composite of MaxChildren children, not in creation order, has
\* returned.
C8_Witness ==
  \E id \in 1..Len(hist) :
    /\ id \notin InFlight
    /\ Len(children) = MaxChildren /\ children[1] # 1
    /\ Len(ctrace[id]) = MaxChildren

\* C9: once a package's calls, made in the engine's order, have returned, its
\* output is the bytes of those calls in call order, every line prefixed.
C9_OrderedUnitOutput ==
  \A u \in Units :
    (~Busy(u) /\ LastOp(u) = PF) =>
      /\ Rendered(u) = Sent(u)
      /\ \A l \in LinesOf(Stream(u)) : OnePrefixLine(l)

\* C10: while calls are running one of them can take a step, and a goroutine
\* that has returned holds no lock and waits for none.
C10_CallsReturn ==
  /\ InFlight # {} => \E t \in Threads : pc[t] # "idle" /\ ENABLED Step(t)
  /\ \A t \in Threads : pc[t] = "idle" => (t \notin muR /\ t \notin muQ /\ muW # t)


\* Call i of a scripted run was made on the ConsoleReporter and has returned.
Returned(i, op) ==
  /\ i \in 1..Len(hist) /\ i \notin InFlight
  /\ script[i].via = "console" /\ script[i].op = op

\* The cells of the table on os.Stdout, three per line: tag, name, version.
TableOut ==
  SelectSeq(stdout, LAMBDA b : b.k \in {"cached", "build", "name", "version"})

TableLine(k) ==
  [tag |-> TableOut[3 * k - 2].k, name |-> TableOut[3 * k - 1].d,
   version |-> TableOut[3 * k].d]

\* C11: the table BuildStarted prints has one line per key of the status
\* map, tagged "cached" for PackageBuilt and "build" otherwise, in ascending
\* order of the rendered lines, whatever order the map was ranged over.
C11_TableSorted ==
  \A i \in 1..Len(hist) :
    Returned(i, "BuildStarted") =>
      LET st == script[i].arg.status
          n  == Cardinality(DOMAIN st)
      IN  /\ Len(TableOut) = 3 * n
          /\ \A u \in DOMAIN st :
               Cardinality({k \in 1..n : TableLine(k).name = u}) = 1
          /\ \A k \in 1..n :
               TableLine(k).tag =
                 IF st[TableLine(k).name] = PackageBuilt THEN "cached" ELSE "build"
          /\ \A k \in 1..(n - 1) : ~LineLess(TableLine(k + 1), TableLine(k))

\* BuildStarted has printed the table of a map whose cached package has the
\* greater name: its line comes first.
C11_Witness ==
  \E i \in 1..Len(hist) :
    /\ Returned(i, "BuildStarted")
    /\ DOMAIN script[i].arg.status = Units
    /\ script[i].arg.status["U"] = PackageNotBuilt
    /\ script[i].arg.status["V"] = PackageBuilt
    /\ TableLine(1).name = "V"


\* The last n bytes of a byte sequence.
LastBytes(bs, n) == SubSeq(bs, Len(bs) - n + 1, Len(bs))

\* C12: for a package whose Version() fails, BuildStarted prints the
\* package's line with the version "unknown", and PackageBuildStarted
\* registers its new sink and writes the started line with the version
\* "unknown"; both calls return.
C12_VersionPlaceholder ==
  /\ ~crashed
  /\ \A i \in 1..Len(hist) :
       Returned(i, "BuildStarted") =>
         \A u \in DOMAIN script[i].arg.status :
           VersionFails(u) =>
             \E k \in 1..Cardinality(DOMAIN script[i].arg.status) :
               TableLine(k).name = u /\ TableLine(k).version = "unknown"
  /\ \A u \in Units :
       (Returned(Len(hist), "PackageBuildStarted") /\ script[Len(hist)].u = u
          /\ VersionFails(u)) =>
         /\ writer[u] # 0 /\ sinks[writer[u]].by = Len(hist)
         /\ Len(Stream(u)) >= 3
         /\ LastBytes(Stream(u), 3)
              = << getRunPrefix(u), Tok(u, "started", "unknown"), NL(u) >>

\* BuildStarted with a status for V, whose Version() fails, and then
\* PackageBuildStarted(V) have returned.
C12_Witness ==
  /\ Len(hist) = 2
  /\ Returned(1, "BuildStarted") /\ "V" \in DOMAIN script[1].arg.status
  /\ Returned(2, "PackageBuildStarted") /\ script[2].u = "V"
  /\ VersionFails("V")


\* The texts of a rendered message, line ends left out.
Texts(bs) == SelectSeq(bs, LAMBDA b : ~IsNL(b))

\* What BuildFinished put on os.Stdout.
SummaryOut ==
  SelectSeq(stdout, LAMBDA b : b.u = NoUnit /\
                               b.k \in {"build-succeeded", "build-failed", "reason"})

\* C13: BuildFinished renders "build succeeded" for a nil error and "build
\* failed", a line end and "Reason: <err>" otherwise; PackageBuildFinished
\* renders "package build succeeded", or "package build failed", a line end
\* and "Reason: <err>"; one of the two per call.
C13_SummaryText ==
  \A i \in 1..Len(hist) :
    LET err == script[i].arg.err
        u   == script[i].u
    IN  /\ Returned(i, "BuildFinished") =>
             /\ SummaryOut =
                  IF err = Nil
                    THEN << Tok(NoUnit, "build-succeeded", "build succeeded") >>
                    ELSE << Tok(NoUnit, "build-failed", "build failed"),
                            Tok(NoUnit, "reason", err) >>
             /\ err # Nil => IsNL(hist[i].bytes[2])
        /\ Returned(i, "PackageBuildFinished") =>
             /\ Texts(hist[i].bytes) =
                  IF err = Nil
                    THEN << Tok(u, "succeeded", "package build succeeded") >>
                    ELSE << Tok(u, "failed", "package build failed"),
                            Tok(u, "reason", err) >>
             /\ err # Nil => IsNL(hist[i].bytes[2])


\* The last call begun for package u (0: none).
LastCallOf(u) ==
  LET I == {i \in 1..Len(hist) : hist[i].u = u}
  IN  IF I = {} THEN 0 ELSE CHOOSE i \in I : \A j \in I : j <= i

\* No other call for the package of call c ran while c did.
NoOverlap(c) ==
  \A j \in 1..Len(hist) :
    (j # c /\ hist[j].u = hist[c].u) =>
      /\ j < c => j \notin hist[c].live
      /\ j > c => c \notin hist[j].live

\* C14: PackageBuildStarted writes its line through the sink it created, and
\* when it has returned, no other call for the package having run meanwhile,
\* the registry maps the package to that sink and the package's output ends
\* with the prefixed started line.
C14_StartedRegistersSink ==
  /\ \A t \in Threads :
       (call[t].op = PS /\ InWrite(t)) => sinks[out[t]].by = call[t].id
  /\ \A u \in Units :
       LET c == LastCallOf(u)
       IN  (c # 0 /\ hist[c].op = PS /\ c \notin InFlight /\ NoOverlap(c)) =>
             /\ writer[u] # 0 /\ sinks[writer[u]].by = c
             /\ Len(Stream(u)) >= 3
             /\ LastBytes(Stream(u), 3) = << getRunPrefix(u) >> \o StartedMsg(u)


\* What a prefix writer of package u puts on os.Stdout for complete lines.
RECURSIVE Prefixed(_, _)
Prefixed(u, bs) ==
  IF bs = << >> THEN << >>
  ELSE << getRunPrefix(u) >> \o FirstLine(bs) \o Prefixed(u, AfterFirstLine(bs))

\* C15: when PackageBuildFinished is the only call made for a package, the
\* package has no registry entry during the call or after it, and once the
\* call has returned the package's output is the final message, each line
\* with the package's prefix.
C15_FinishedWithoutEntry ==
  \A u \in Units :
    (Len(CallsOf(u)) = 1 /\ CallsOf(u)[1].op = PF) =>
      /\ writer[u] = 0
      /\ ~Busy(u) => Stream(u) = Prefixed(u, CallsOf(u)[1].bytes)

\* PackageBuildFinished(U, err) with a non-nil error, the only call for U,
\* has returned while a call for V was made.
C15_Witness ==
  /\ Len(CallsOf("U")) = 1 /\ CallsOf("U")[1].op = PF /\ ~Busy("U")
  /\ Len(CallsOf("U")[1].bytes) = 4
  /\ CallsOf("V") # << >>
  /\ \E i \in 1..Len(hist) : hist[i].u = "V" /\ hist[i].live # {}


\* The last call begun for package u is a PackageBuildFinished that began
\* while a PackageBuildLog for u was running.
FinishedDuringLog(u) ==
  LET f == LastCallOf(u)
  IN  /\ f # 0 /\ hist[f].op = PF
      /\ \E l \in hist[f].live : hist[l].u = u /\ hist[l].op = PL

\* C16: once a PackageBuildFinished and the PackageBuildLog it overlapped
\* have both returned, the package has no registry entry.
C16_NoEntryAfterRacingLog ==
  \A u \in Units : (FinishedDuringLog(u) /\ ~Busy(u)) => writer[u] = 0


\* The log bytes the console calls of the script made so far were given for
\* package u, whatever their isErr flag.
RECURSIVE ScriptLogBytes(_, _)
ScriptLogBytes(u, n) ==
  IF n = 0 THEN << >>
  ELSE ScriptLogBytes(u, n - 1) \o
         (IF script[n].via = "console" /\ script[n].op = PL /\ script[n].u = u
            THEN LogBytes(u, script[n].arg.buf) ELSE << >>)

\* A byte sequence up to its last line end.
CompletePart(bs) ==
  LET ends == {i \in 1..Len(bs) : IsNL(bs[i])}
  IN  IF ends = {} THEN << >>
      ELSE SubSeq(bs, 1, CHOOSE i \in ends : \A j \in ends : j <= i)

\* The console calls made so far are all PackageBuildLog calls.
OnlyLogs ==
  \A i \in 1..Len(hist) : script[i].via = "console" => script[i].op = PL

\* C17: every child call of a call on the composite has the method, package
\* and arguments of that call, every child is called before it returns; and
\* the output of PackageBuildLog calls on the ConsoleReporter is the complete
\* lines of their buffers, the same for either value of isErr.
C17_ArgumentsForwarded ==
  /\ \A i \in 1..Len(ctrace) :
       /\ i \notin InFlight => Len(ctrace[i]) = Len(children)
       /\ \A k \in 1..Len(ctrace[i]) :
            /\ ctrace[i][k].op = script[i].op
            /\ ctrace[i][k].u = script[i].u
            /\ ctrace[i][k].arg = script[i].arg
  /\ (OnlyLogs /\ InFlight = {}) =>
       \A u \in Units : Rendered(u) = CompletePart(ScriptLogBytes(u, Len(hist)))

\* A PackageBuildLog with isErr set was forwarded to two children, and after
\* it a PackageBuildLog with isErr set printed its line on the console.
C17_Witness ==
  /\ Len(hist) = 2 /\ InFlight = {} /\ Len(children) = 2
  /\ script[1].via = "composite" /\ script[1].op = PL /\ script[1].arg.isErr
  /\ Len(ctrace[1]) = 2
  /\ script[2].via = "console" /\ script[2].op = PL /\ script[2].arg.isErr
  /\ Rendered(script[2].u) # << >>


\* Goroutine t takes the step.
Acting(t) ==
  <<pc[t], call[t], out[t], rest[t], chunk[t], cidx[t]>>
    # <<pc'[t], call'[t], out'[t], rest'[t], chunk'[t], cidx'[t]>>

\* The call goroutine t begins or goes on with in a step.
ActingCall(t) == IF pc[t] = "idle" THEN call'[t] ELSE call[t]

\* C18: a step of BuildStarted or BuildFinished leaves the registry as it
\* is, so does a step of a PackageBuildLog whose package has a sink
\* registered, and a step of any call leaves the entries of the packages
\* other than its own as they are.
C18_Frame ==
  [][\A t \in Threads :
       Acting(t) =>
         /\ ActingCall(t).op \in {"BuildStarted", "BuildFinished"} => writer' = writer
         /\ (ActingCall(t).op = PL /\ writer[ActingCall(t).u] # 0) => writer' = writer
         /\ \A v \in Units \ {ActingCall(t).u} : writer'[v] = writer[v]]_vars

\* PackageBuildFinished(U) has returned after a call that registered a sink
\* for V, which is still registered.
C18_Witness ==
  /\ Len(hist) = 2
  /\ Returned(2, "PackageBuildFinished") /\ script[2].u = "U"
  /\ script[1].via = "console" /\ script[1].u = "V" /\ writer["V"] # 0

====
